---------------------------- MODULE Spec2Model ----------------------------
(***************************************************************************)
(* Model of the acdlo static-base pipeline.                                *)
(*                                                                         *)
(*   scripts/static_base_model_gen.py  - the Derivation Engine: builds the *)
(*       symbolic expressions and pickles each one into a cache slot.      *)
(*   src/acdlo/static_base.py          - the Evaluation Layer: at import   *)
(*       unpickles six slots, lambdifies each, and defines eval_* wrappers.*)
(*                                                                         *)
(* A symbolic expression is represented by the set of its free symbols     *)
(* (an upper bound that is exact for theta_k, ddtheta_k, v, s, d, gamma,   *)
(* the symbols the properties below test).  The numeric content of fk and  *)
(* of the Christoffel construction is modelled separately on integers.     *)
(***************************************************************************)
EXTENDS Integers, Sequences, FiniteSets, TLC

(***************************************************************************)
(* Bounds of the model.                                                    *)
(***************************************************************************)
MaxThetaLen == 3     \* longest theta argument a caller passes to eval_*
MaxRuns     == 2     \* how many times the derivation script is run
GridN       == 2     \* arclength grid steps in [0,1] for the numeric fk
MaxCoef     == 1     \* theta coefficients range over 0..MaxCoef quarter turns
MaxLen      == 2     \* L and D range over 1..MaxLen
MaxRate     == 1     \* dtheta_k and dB entries range over -MaxRate..MaxRate

(***************************************************************************)
(* Program constants.                                                      *)
(***************************************************************************)
poly_order == 2

Range(f) == {f[i] : i \in DOMAIN f}

(***************************************************************************)
(* Symbols of the Derivation Engine (static_base_model_gen.py).            *)
(***************************************************************************)
p       == <<"m_L", "m_E", "L", "D">>
theta   == <<"theta_0", "theta_1", "theta_2">>
dtheta  == <<"dtheta_0", "dtheta_1", "dtheta_2">>
ddtheta == <<"ddtheta_0", "ddtheta_1", "ddtheta_2">>

(***************************************************************************)
(* Symbols of the Evaluation Layer (static_base.py).                       *)
(***************************************************************************)
sb_p     == <<"m_L", "m_E", "L", "D">>
sb_theta == <<"theta_0", "theta_1">>

(***************************************************************************)
(* Free-symbol effect of the sympy operations the script uses.             *)
(***************************************************************************)
\* sm.integrate(e, (x, lo, hi)): x is bound, the limits' symbols are free.
Integrate(e, x, lo, hi) == (e \ {x}) \cup lo \cup hi

\* e.subs(x, r): x is replaced by r wherever it occurs.
Subs(e, x, r) == IF x \in e THEN (e \ {x}) \cup r ELSE e

\* e.jacobian(X) / sm.diff(e, x): no symbol is introduced.
Jacobian(e, X) == e

(***************************************************************************)
(* The expressions of the derivation, in script order.                     *)
(***************************************************************************)
alpha_first_order == {"theta_0", "theta_1", "v"}

alpha == {"theta_0", "theta_1", "theta_2", "v"}

fk_spine == {"L"} \cup Integrate(alpha, "v", {}, {"s"})

rot_alpha_nosubs == alpha

rot_alpha == Subs(alpha, "v", {"s"})

fk == fk_spine \cup {"D"} \cup rot_alpha \cup {"d"}

J_static == Jacobian(fk, Range(theta))

U == {"m_E", "m_L"} \cup Integrate({"gamma"} \cup Subs(fk, "s", {}), "d", {}, {})

G == Jacobian(Subs(U, "gamma", {}), Range(theta))

Gv == Jacobian(U, Range(theta))

B == {"m_E", "m_L"} \cup Integrate(Jacobian(Subs(fk, "s", {}), Range(theta)), "d", {}, {})

C == Jacobian(B, Range(theta)) \cup Range(dtheta)

E == B \cup Range(ddtheta) \cup C \cup Range(dtheta) \cup G

Y == Jacobian(E, {"m_L", "m_E"})

dE_dmL == Jacobian(E, {"m_L"})

E_mL_0 == Subs(E, "m_L", {})

dE_dmE == Jacobian(E, {"m_E"})

E_mE_0 == Subs(E, "m_E", {})

(***************************************************************************)
(* The cache: one slot per file under sympy_fcns/sb/.                      *)
(***************************************************************************)
ModelSlots == {"fk", "J_static", "G", "Gv", "B", "C"}
IdentSlots == {"Y", "dE_dmL", "E_mL_0", "dE_dmE", "E_mE_0"}
PointSlots == {"fk_mid_static", "fk_end_static", "J_mid_static", "J_end_static"}
Slots      == ModelSlots \cup IdentSlots \cup PointSlots

\* The pickle.dump statements of the script, in order.
DumpOrder == <<"fk", "J_static", "G", "Gv", "B", "C",
               "Y", "dE_dmL", "E_mL_0", "dE_dmE", "E_mE_0">>

\* The expression each pickle.dump writes.
Artifact(slot) ==
    CASE slot = "fk"       -> fk
      [] slot = "J_static" -> J_static
      [] slot = "G"        -> G
      [] slot = "Gv"       -> Gv
      [] slot = "B"        -> B
      [] slot = "C"        -> C
      [] slot = "Y"        -> Y
      [] slot = "dE_dmL"   -> dE_dmL
      [] slot = "E_mL_0"   -> E_mL_0
      [] slot = "dE_dmE"   -> dE_dmE
      [] slot = "E_mE_0"   -> E_mE_0

\* A slot's content: st is "missing" (no file), "partial" (file opened "wb",
\* pickle not yet written in full) or "complete"; fs the expression's free
\* symbols; ncoef the number of theta coefficients of the derivation that
\* wrote it; origin "none", "legacy" (present before any run of this script)
\* or "derived" (written by this script).
MissingSlot == [st |-> "missing", fs |-> {}, ncoef |-> 0, origin |-> "none"]

EmptyCache == [sl \in Slots |-> MissingSlot]

\* A cache generated with the first-order configuration (theta_0, theta_1),
\* with the mid/end point artifacts of the TODO block present.
LegacyCache ==
    [sl \in Slots |->
        IF sl \in {"fk", "J_static"}
        THEN [st |-> "complete", fs |-> {"theta_0", "theta_1", "L", "D", "s", "d"},
              ncoef |-> 2, origin |-> "legacy"]
        ELSE IF sl \in PointSlots
        THEN [st |-> "complete", fs |-> {"theta_0", "theta_1", "L", "D"},
              ncoef |-> 2, origin |-> "legacy"]
        ELSE MissingSlot]

VARIABLES
    cache,       \* [Slots -> slot content]
    dstate,      \* derivation script: "idle", "running", "done", "aborted"
    dpc,         \* index into DumpOrder of the next pickle.dump
    dphase,      \* within a dump: "compute" (before open), "write" (file opened)
    runs,        \* derivation runs started so far
    estate,      \* evaluation layer: "Uninitialized", "Loading", "Ready", "Failed"
    epc,         \* source line of the next module-level statement of static_base.py
    compiled,    \* [compiled function name -> loaded expression]
    entryPoints, \* eval_* functions defined so far
    lastCall,    \* the last call of a compiled function
    lastError,   \* the exception that ended the import, or "none"
    fkin,        \* numeric fk check: inputs
    fkout,       \* numeric fk check: result
    cin,         \* Coriolis check: inputs
    cout         \* Coriolis check: result

vars == <<cache, dstate, dpc, dphase, runs, estate, epc, compiled, entryPoints,
          lastCall, lastError, fkin, fkout, cin, cout>>

pipeVars == <<cache, dstate, dpc, dphase, runs, estate, epc, compiled,
              entryPoints, lastCall, lastError>>
derivVars == <<dstate, dpc, dphase, runs>>
evalVars  == <<estate, epc, compiled, entryPoints, lastCall, lastError>>
numVars   == <<fkin, fkout, cin, cout>>

(***************************************************************************)
(* Derivation Engine: static_base_model_gen.py run as a script.            *)
(***************************************************************************)
\* The script is started (python static_base_model_gen.py).
StartDerivation ==
    /\ dstate \in {"idle", "done", "aborted"}
    /\ runs < MaxRuns
    /\ dstate' = "running"
    /\ dpc' = 1
    /\ dphase' = "compute"
    /\ runs' = runs + 1
    /\ UNCHANGED <<cache, evalVars, numVars>>

\* open(path, "wb") of the next pickle.dump statement: the symbolic work
\* before it is done and the file is created or truncated to length 0.
OpenSlot ==
    /\ dstate = "running"
    /\ dphase = "compute"
    /\ cache' = [cache EXCEPT ![DumpOrder[dpc]] =
                    [st |-> "partial", fs |-> {}, ncoef |-> 0, origin |-> "derived"]]
    /\ dphase' = "write"
    /\ UNCHANGED <<dstate, dpc, runs, evalVars, numVars>>

\* pickle.dump(expr, file) writes the whole pickle; the script goes on to the
\* next statement, or ends after the last one.
WriteSlot ==
    /\ dstate = "running"
    /\ dphase = "write"
    /\ cache' = [cache EXCEPT ![DumpOrder[dpc]] =
                    [st |-> "complete", fs |-> Artifact(DumpOrder[dpc]),
                     ncoef |-> poly_order + 1, origin |-> "derived"]]
    /\ IF dpc = Len(DumpOrder)
       THEN /\ dstate' = "done"
            /\ dpc' = dpc
            /\ dphase' = "compute"
       ELSE /\ dstate' = "running"
            /\ dpc' = dpc + 1
            /\ dphase' = "compute"
    /\ UNCHANGED <<runs, evalVars, numVars>>

\* The run is interrupted (KeyboardInterrupt, kill) or a statement raises:
\* the script has no try/finally and no temporary file, it just stops.
Interrupt ==
    /\ dstate = "running"
    /\ dstate' = "aborted"
    /\ UNCHANGED <<cache, dpc, dphase, runs, evalVars, numVars>>

(***************************************************************************)
(* Evaluation Layer: import of static_base.py, then calls of eval_*.       *)
(***************************************************************************)
Fns == {"f_FK", "f_J", "f_FK_mid", "f_FK_end", "f_J_mid", "f_J_end"}

\* The module-level sm.lambdify(..., pickle.load(open(...))) statements, by
\* source line: the compiled function, its slot, the eval_* wrapper defined
\* right after it ("-" when the next statement is not a def), the next line.
LoadLines == {22, 26, 34, 38, 42, 46}

LoadStmt(line) ==
    CASE line = 22 -> [fn |-> "f_FK",     slot |-> "fk",            def |-> "eval_fk",      next |-> 26]
      [] line = 26 -> [fn |-> "f_J",      slot |-> "J_static",      def |-> "-",            next |-> 27]
      [] line = 34 -> [fn |-> "f_FK_mid", slot |-> "fk_mid_static", def |-> "eval_midpt",   next |-> 38]
      [] line = 38 -> [fn |-> "f_FK_end", slot |-> "fk_end_static", def |-> "eval_endpt",   next |-> 42]
      [] line = 42 -> [fn |-> "f_J_mid",  slot |-> "J_mid_static",  def |-> "eval_J_midpt", next |-> 46]
      [] line = 46 -> [fn |-> "f_J_end",  slot |-> "J_end_static",  def |-> "eval_J_endpt", next |-> 0]

SlotOf(fn) == LoadStmt(CHOOSE line \in LoadLines : LoadStmt(line).fn = fn).slot

\* The compiled function each eval_* wrapper calls.
EntryFn(entry) ==
    CASE entry = "eval_fk"      -> "f_FK"
      [] entry = "eval_J"       -> "f_J"
      [] entry = "eval_midpt"   -> "f_FK_mid"
      [] entry = "eval_endpt"   -> "f_FK_end"
      [] entry = "eval_J_midpt" -> "f_J_mid"
      [] entry = "eval_J_endpt" -> "f_J_end"

\* The argument symbols each function is lambdified over.
Signature(fn) ==
    IF fn \in {"f_FK", "f_J"}
    THEN Range(sb_theta) \cup Range(sb_p) \cup {"s", "d"}
    ELSE Range(sb_theta) \cup Range(sb_p)

NotLoaded == [loaded |-> FALSE, fs |-> {}, ncoef |-> 0, origin |-> "none"]

Unloaded == {SlotOf(fn) : fn \in {g \in Fns : ~compiled[g].loaded}}

\* A call of a lambdified function with a theta argument of n values: the
\* generated code first unpacks theta into the signature's symbols, then
\* evaluates the expression, whose every name must be an argument.
CallOutcome(fn, n) ==
    IF n # Len(sb_theta) THEN "ValueError"
    ELSE IF ~(compiled[fn].fs \subseteq Signature(fn)) THEN "NameError"
    ELSE "numeric"

CallRecord(fn, entry, n) ==
    [fn |-> fn, entry |-> entry, thetaLen |-> n, outcome |-> CallOutcome(fn, n),
     unloaded |-> Unloaded, during |-> estate,
     ncoef |-> compiled[fn].ncoef, origin |-> compiled[fn].origin]

NoCall == [fn |-> "none", entry |-> "none", thetaLen |-> 0, outcome |-> "none",
           unloaded |-> {}, during |-> "none", ncoef |-> 0, origin |-> "none"]

\* import acdlo.static_base begins.
ImportStart ==
    /\ estate = "Uninitialized"
    /\ estate' = "Loading"
    /\ epc' = 22
    /\ UNCHANGED <<cache, derivVars, compiled, entryPoints, lastCall, lastError, numVars>>

\* One lambdify(pickle.load(open(...))) statement and the def that follows.
\* open raises on a missing file, pickle.load on a truncated one; lambdify
\* compiles whatever expression it is given.
LoadSlot ==
    /\ estate = "Loading"
    /\ epc \in LoadLines
    /\ LET stmt == LoadStmt(epc)
           c    == cache[stmt.slot]
       IN  IF c.st = "missing"
           THEN /\ estate' = "Failed"
                /\ lastError' = "FileNotFoundError"
                /\ UNCHANGED <<epc, compiled, entryPoints>>
           ELSE IF c.st = "partial"
           THEN /\ estate' = "Failed"
                /\ lastError' = "UnpicklingError"
                /\ UNCHANGED <<epc, compiled, entryPoints>>
           ELSE /\ compiled' = [compiled EXCEPT ![stmt.fn] =
                                   [loaded |-> TRUE, fs |-> c.fs,
                                    ncoef |-> c.ncoef, origin |-> c.origin]]
                /\ entryPoints' = IF stmt.def = "-" THEN entryPoints
                                  ELSE entryPoints \cup {stmt.def}
                /\ epc' = stmt.next
                /\ estate' = IF stmt.next = 0 THEN "Ready" ELSE "Loading"
                /\ UNCHANGED lastError
    /\ UNCHANGED <<cache, derivVars, lastCall, numVars>>

\* Line 27: print(..., f_J([0.1, 0.1], [0.5,0.5,1,0.1], 0.5, 0.1)); then the
\* def of eval_J on line 28.
ImportCallFJ ==
    /\ estate = "Loading"
    /\ epc = 27
    /\ lastCall' = CallRecord("f_J", "direct", 2)
    /\ IF CallOutcome("f_J", 2) = "numeric"
       THEN /\ epc' = 32
            /\ entryPoints' = entryPoints \cup {"eval_J"}
            /\ UNCHANGED <<estate, lastError>>
       ELSE /\ estate' = "Failed"
            /\ lastError' = CallOutcome("f_J", 2)
            /\ UNCHANGED <<epc, entryPoints>>
    /\ UNCHANGED <<cache, derivVars, compiled, numVars>>

\* Line 32: print(..., eval_J([0.1,0.1], [0.5,0.5,1,0.1], 0.5, 0.1)).
ImportCallEvalJ ==
    /\ estate = "Loading"
    /\ epc = 32
    /\ lastCall' = CallRecord("f_J", "eval_J", 2)
    /\ IF CallOutcome("f_J", 2) = "numeric"
       THEN /\ epc' = 34
            /\ UNCHANGED <<estate, lastError>>
       ELSE /\ estate' = "Failed"
            /\ lastError' = CallOutcome("f_J", 2)
            /\ UNCHANGED epc
    /\ UNCHANGED <<cache, derivVars, compiled, entryPoints, numVars>>

\* A caller of the imported module calls an eval_* wrapper with a theta of
\* n values; an exception goes to the caller, the module stays imported.
ClientCall ==
    /\ estate = "Ready"
    /\ \E entry \in entryPoints, n \in 1..MaxThetaLen :
          lastCall' = CallRecord(EntryFn(entry), entry, n)
    /\ UNCHANGED <<cache, derivVars, estate, epc, compiled, entryPoints, lastError, numVars>>

(***************************************************************************)
(* Numeric forward kinematics (static_base_model_gen.py lines 60-71).      *)
(* Angles are in quarter turns, so sin and cos are integers; arclength is  *)
(* on the grid v = j/GridN and theta is scaled so that                     *)
(* alpha(j/GridN) = th[1] + th[2]*j + th[3]*j^2; d is in halves (d2 = 2d). *)
(* The definite integral from 0 to s = k/GridN is the sum over the grid    *)
(* cells 0..k-1, and results are scaled by 2*GridN to stay integral.       *)
(***************************************************************************)
sin4(a) == CASE a % 4 = 0 -> 0 [] a % 4 = 1 -> 1 [] a % 4 = 2 -> 0 [] a % 4 = 3 -> -1

cos4(a) == sin4(a + 1)

alpha_at(th, j) == th[1] + th[2] * j + th[3] * j * j

RECURSIVE GridSum(_, _, _, _)
\* Sum of f(alpha(j)) over the grid cells lo..hi-1 (f is "sin" or "cos").
GridSum(f, th, lo, hi) ==
    IF lo >= hi THEN 0
    ELSE (IF f = "sin" THEN sin4(alpha_at(th, lo)) ELSE cos4(alpha_at(th, lo)))
         + GridSum(f, th, lo + 1, hi)

\* sm.integrate(f(alpha), (v, 0, s)), times GridN.
integrate_inclusive(f, th, k) == GridSum(f, th, 0, k + 1)

integrate(f, th, k) == GridSum(f, th, 0, k)

\* fk[0] and fk[1] after line 71, times 2*GridN:
\*   fk = -L*integral(sin, cos) + D*rot_axis3(alpha(s))[:2,:2] @ (d, 0)
\* with rot_axis3(a)[:2,:2] = [[cos a, sin a], [-sin a, cos a]].
fk_x(th, pv, k, d2) ==
    -2 * pv.L * integrate("sin", th, k) + GridN * pv.D * d2 * cos4(alpha_at(th, k))

fk_z(th, pv, k, d2) ==
    -2 * pv.L * integrate("cos", th, k) - GridN * pv.D * d2 * sin4(alpha_at(th, k))

FkInputs ==
    [th : [1..(poly_order + 1) -> 0..MaxCoef],
     pv : [L : 1..MaxLen, D : 1..MaxLen],
     k  : 0..GridN,
     d2 : {-1, 0, 1}]

NoFk == <<>>

\* f_FK(theta, p, s, d) on one input.
EvalFk ==
    /\ fkout = NoFk
    /\ fkout' = <<fk_x(fkin.th, fkin.pv, fkin.k, fkin.d2),
                  fk_z(fkin.th, fkin.pv, fkin.k, fkin.d2)>>
    /\ UNCHANGED <<pipeVars, fkin, cin, cout>>

(***************************************************************************)
(* Coriolis matrix (static_base_model_gen.py lines 146-151).               *)
(* dB[<<i,j,k>>] stands for diff(B[i,j], theta[k]); the factor 0.5 is kept *)
(* out by computing 2*C.                                                   *)
(***************************************************************************)
Idx == 0..poly_order

RECURSIVE SumTo(_, _)
\* sum of f[k] for k in 0..n
SumTo(f, n) == IF n < 0 THEN 0 ELSE f[n] + SumTo(f, n - 1)

\* 2 * Christoffel of the loop body, for the indices i, j, k.
TwoChristoffel_wrong_sign(dB, i, j, k) == dB[<<i, j, k>>] + dB[<<i, k, j>>] + dB[<<j, k, i>>]

TwoChristoffel(dB, i, j, k) == dB[<<i, j, k>>] + dB[<<i, k, j>>] - dB[<<j, k, i>>]

\* 2 * C after the triple loop.
TwoC(dB, dth) ==
    [i \in Idx |-> [j \in Idx |->
        SumTo([k \in Idx |-> TwoChristoffel(dB, i, j, k) * dth[k]], poly_order)]]

\* dB/dt[i,j] = sum_k diff(B[i,j], theta[k]) * dtheta[k].
Bdot(dB, dth) ==
    [i \in Idx |-> [j \in Idx |->
        SumTo([k \in Idx |-> dB[<<i, j, k>>] * dth[k]], poly_order)]]

\* Derivatives of a symmetric B: one entry pair (i,j),(j,i) of value a for
\* theta_k plus one entry pair (i2,j2),(j2,i2) of value 1 for theta_k2.
Bump(i, j, k, a) ==
    [t \in Idx \X Idx \X Idx |->
        IF t[3] = k /\ ((t[1] = i /\ t[2] = j) \/ (t[1] = j /\ t[2] = i)) THEN a ELSE 0]

AddDB(f, g) == [t \in Idx \X Idx \X Idx |-> f[t] + g[t]]

DBInputs ==
    {AddDB(Bump(i, j, k, a), Bump(i2, j2, k2, 1)) :
        i \in Idx, j \in Idx, k \in Idx, a \in -MaxRate..MaxRate,
        i2 \in Idx, j2 \in Idx, k2 \in Idx}

CInputs == [dB : DBInputs, dth : [Idx -> -MaxRate..MaxRate]]

NoC == <<>>

\* The triple loop over i, j, k.
BuildC ==
    /\ cout = NoC
    /\ cout' = TwoC(cin.dB, cin.dth)
    /\ UNCHANGED <<pipeVars, fkin, fkout, cin>>

(***************************************************************************)
(* Specifications.                                                         *)
(***************************************************************************)
FkDefault == [th |-> [i \in 1..(poly_order + 1) |-> 0], pv |-> [L |-> 1, D |-> 1],
              k |-> 0, d2 |-> 0]

CDefault == [dB |-> Bump(0, 0, 0, 0), dth |-> [k \in Idx |-> 0]]

PipeInit ==
    /\ cache \in {EmptyCache, LegacyCache}
    /\ dstate = "idle"
    /\ dpc = 1
    /\ dphase = "compute"
    /\ runs = 0
    /\ estate = "Uninitialized"
    /\ epc = 0
    /\ compiled = [fn \in Fns |-> NotLoaded]
    /\ entryPoints = {}
    /\ lastCall = NoCall
    /\ lastError = "none"

\* The pipeline: derivation script and evaluation layer, separate processes
\* sharing the cache directory.
Init ==
    /\ PipeInit
    /\ fkin = FkDefault
    /\ fkout = NoFk
    /\ cin = CDefault
    /\ cout = NoC

Next ==
    \/ StartDerivation
    \/ OpenSlot
    \/ WriteSlot
    \/ Interrupt
    \/ ImportStart
    \/ LoadSlot
    \/ ImportCallFJ
    \/ ImportCallEvalJ
    \/ ClientCall

Spec == Init /\ [][Next]_vars

\* The forward kinematics on every input of FkInputs.
InitFK ==
    /\ PipeInit
    /\ cache = EmptyCache
    /\ fkin \in FkInputs
    /\ fkout = NoFk
    /\ cin = CDefault
    /\ cout = NoC

SpecFK == InitFK /\ [][EvalFk]_vars

\* The Christoffel construction on every input of CInputs.
InitC ==
    /\ PipeInit
    /\ cache = EmptyCache
    /\ fkin = FkDefault
    /\ fkout = NoFk
    /\ cin \in CInputs
    /\ cout = NoC

SpecC == InitC /\ [][BuildC]_vars

(***************************************************************************)
(* Properties.                                                             *)
(***************************************************************************)
\* The slots the Evaluation Layer loads at import.
EvalSlots == {SlotOf(fn) : fn \in Fns}

\* The symbols an evaluation signature may bind.
AllowedSymbols ==
    Range(theta) \cup Range(dtheta) \cup Range(p) \cup {"s", "d", "gamma"}

\* C1: no compiled function and no eval_* entry point is called while a slot
\* of the layer is still unloaded.
C1_LoadBeforeAnyCall ==
    lastCall.fn # "none" => lastCall.unloaded = {}

\* C2: a slot that is missing, unreadable or incompatible with the signature
\* it is compiled with stops the import; the layer is never Ready with an
\* incompatible slot, and no call in Ready fails on an unbound symbol.
C2_CacheLoadErrorFatalAtStartup ==
    /\ estate = "Ready" =>
          \A fn \in Fns : compiled[fn].loaded /\ compiled[fn].fs \subseteq Signature(fn)
    /\ lastCall.during = "Ready" => lastCall.outcome # "NameError"

\* C3: for fk and J_static as written by the Derivation Engine, the symbols
\* the Evaluation Layer compiles over are the derivation's theta, p, s, d, and
\* they bind every free symbol of the cached expression.
C3_SignatureMatchesDerivation ==
    \A fn \in {"f_FK", "f_J"} :
        (compiled[fn].loaded /\ compiled[fn].origin = "derived") =>
            /\ sb_theta = theta
            /\ sb_p = p
            /\ compiled[fn].fs \subseteq Signature(fn)

\* C4: a call of f_FK / f_J (directly or through eval_fk, eval_J) on an
\* expression derived with poly_order+1 theta coefficients, with a theta of
\* any other length, ends in an error, never in a numeric result.
C4_WrongThetaLengthFails ==
    (/\ lastCall.fn \in {"f_FK", "f_J"}
     /\ lastCall.ncoef = poly_order + 1
     /\ lastCall.thetaLen # poly_order + 1)
        => lastCall.outcome \in {"ValueError", "NameError"}

\* C4 witness: in Ready, eval_fk was called with 2 theta values on the fk the
\* script derived with 3 coefficients, and the call raised.
C4_Witness ==
    /\ lastCall.entry = "eval_fk"
    /\ lastCall.during = "Ready"
    /\ lastCall.thetaLen = 2
    /\ lastCall.ncoef = poly_order + 1
    /\ lastCall.origin = "derived"
    /\ lastCall.outcome = "NameError"

\* C5: in Ready there is an eval_* entry point for each of fk, J_static, G,
\* Gv, B and C.
C5_EntryPointPerArtifact ==
    estate = "Ready" =>
        \A a \in ModelSlots : \E e \in entryPoints : SlotOf(EntryFn(e)) = a

\* C6: after an interrupted or aborted derivation run no slot is left empty,
\* truncated or partially written.
C6_AtomicPerArtifact ==
    dstate = "aborted" => \A sl \in Slots : cache[sl].st # "partial"

\* C7 as stated: every expression the Derivation Engine wrote has its free
\* symbols among the theta, dtheta, p components, s, d and gamma.
C7_FreeSymbolsAllowed ==
    \A sl \in Slots :
        (cache[sl].origin = "derived" /\ cache[sl].st = "complete") =>
            cache[sl].fs \subseteq AllowedSymbols

\* C7 amended: that holds for fk, J_static, G, Gv, B and C; the identification
\* regressors may also contain the ddtheta components; v is free in none.
C7_FreeSymbolsAmended ==
    \A sl \in Slots :
        (cache[sl].origin = "derived" /\ cache[sl].st = "complete") =>
            /\ sl \in ModelSlots => cache[sl].fs \subseteq AllowedSymbols
            /\ sl \in IdentSlots =>
                  cache[sl].fs \subseteq AllowedSymbols \cup Range(ddtheta)
            /\ "v" \notin cache[sl].fs

\* C7 witness: a full run has written all eleven slots, and the regressor Y
\* holds an acceleration symbol.
C7_Witness ==
    /\ dstate = "done"
    /\ \A sl \in ModelSlots \cup IdentSlots :
          cache[sl].origin = "derived" /\ cache[sl].st = "complete"
    /\ "ddtheta_0" \in cache["Y"].fs

\* The cross-section offset D*rot(alpha(0))*(d,0) at s = 0, in the units of
\* fk_x, fk_z.
OffsetAtBase(in) ==
    <<GridN * in.pv.D * in.d2 * cos4(in.th[1]),
      -(GridN * in.pv.D * in.d2 * sin4(in.th[1]))>>

\* C8 as stated: at s = 0 the forward kinematics is (0,0) for any theta, p, d.
C8_FkZeroAtBase ==
    (fkout # NoFk /\ fkin.k = 0) => fkout = <<0, 0>>

\* C8 amended: at s = 0 the integrals vanish and fk is the cross-section
\* offset D*d*(cos theta_0, -sin theta_0), which is (0,0) when d = 0.
C8_FkAtBaseIsOffset ==
    (fkout # NoFk /\ fkin.k = 0) =>
        /\ fkout = OffsetAtBase(fkin)
        /\ fkin.d2 = 0 => fkout = <<0, 0>>

\* C8 witness: fk was evaluated at s = 0 with d # 0 and is not the zero vector.
C8_Witness ==
    /\ fkout # NoFk
    /\ fkin.k = 0
    /\ fkin.d2 # 0
    /\ fkout # <<0, 0>>
    /\ fkout = OffsetAtBase(fkin)

\* N = dB/dt - 2C for the inputs and the C that was built.
NMatrix == [i \in Idx |-> [j \in Idx |-> Bdot(cin.dB, cin.dth)[i][j] - cout[i][j]]]

\* C9: N = dB/dt - 2C is skew-symmetric for the C of the triple loop.
C9_SkewSymmetric ==
    cout # NoC => \A i \in Idx, j \in Idx : NMatrix[i][j] = -NMatrix[j][i]

\* C9 witness: C was built and N has a nonzero off-diagonal entry.
C9_Witness ==
    /\ cout # NoC
    /\ \E i \in Idx, j \in Idx : i # j /\ NMatrix[i][j] # 0

\* C10: after a complete run from an empty cache every slot the Evaluation
\* Layer loads at startup has been written.
C10_DerivationWritesEvalSlots ==
    (dstate = "done" /\ \A sl \in Slots : cache[sl].origin # "legacy") =>
        \A sl \in EvalSlots : cache[sl].origin = "derived" /\ cache[sl].st = "complete"

=============================================================================
